---- MODULE Spec2Model ----
(***************************************************************************)
(* Peer sessions of the overlay (src/src/overlay/peer.rs): the handshake   *)
(* start_authentication, the key schedule set_remote_keys, the envelope    *)
(* codec send_message / receive_message and the record framing.            *)
(*                                                                         *)
(* Cryptographic primitives are symbolic: X25519 is a commutative function *)
(* of the two key pairs, HKDF-Extract, HKDF-Expand and HMAC are injective  *)
(* constructors of their inputs, an Ed25519 signature names its signer and *)
(* the payload it was made over.                                           *)
(***************************************************************************)
EXTENDS Integers, Sequences, FiniteSets, TLC

(* ------------------------------ bounds --------------------------------- *)
\* nonces a session can draw at creation (rng.gen())
NumNonces == 2
\* ephemeral secrets a session can draw at creation (StaticSecret::new)
NumSecrets == 2
\* application sends after start_authentication returned
MaxAppSends == 1
\* sends on a session keyed directly with set_remote_keys
MaxKeyedSends == 5
\* sequence numbers a foreign remote puts in the envelopes it writes: 0..MaxRemoteSeq
MaxRemoteSeq == 1
MaxSmallLength == 40
MaxCloneSends == 3
\* the clock, in seconds since the epoch (SystemTime::now())
UnixTime == 1000

(* ------------------------- program constants --------------------------- *)
\* let expiration_limit: u64 = 3600
expiration_limit == 3600

Peers == {"A", "B"}
Other(p) == IF p = "A" THEN "B" ELSE "A"

Nonces == 1..NumNonces
Secrets == 1..NumSecrets
\* the secret of a remote that is not a session of this program
ForeignSecret == 0

(* ------------------------------ crypto --------------------------------- *)
\* [u8; 32] Default::default(): the all-zero key
ZeroKey == [zero |-> TRUE]
\* PublicKey::from(&secret)
PublicKeyFrom(secret) == [curve25519_of |-> secret]
\* secret.diffie_hellman(&remote_public): commutative in the two key pairs
diffie_hellman(secret, remote_public) == {PublicKeyFrom(secret), remote_public}
\* Hkdf::<Sha256>::extract(None, ikm): the prk, injective in ikm
hkdf_extract(ikm) == [prk_of |-> ikm]
\* hk.expand(info, okm): injective in (prk, info)
hkdf_expand(prk, info) == [prk |-> prk, info |-> info]
\* Hmac::<Sha256>::new_varkey(key), input(data), result(): injective in (key, data)
Hmac(key, data) == [key |-> key, data |-> data]
\* HmacSha256Mac Default::default(): the all-zero placeholder
ZeroMac == [zero |-> TRUE]

\* LOCAL_NODE: one process-wide node identity and network id
LocalNodeId == "local-node"
ForeignNodeId == "foreign-node"
NetworkId == "network-id"

(* ----------------------------- messages -------------------------------- *)
NoSignature == [signer |-> "", payload |-> <<>>]
\* xdr::Hello Default::default()
DefaultHello ==
  [peer_id |-> "", nonce |-> 0,
   cert |-> [pubkey |-> PublicKeyFrom(ForeignSecret), expiration |-> 0, sig |-> NoSignature]]

\* new_auth_cert: expiration one hour ahead, signature over
\* network_id || ENVELOPE_TYPE_AUTH || expiration || pubkey
new_auth_cert(node_id, auth_public_key) ==
  LET expiration == expiration_limit + UnixTime
  IN [pubkey |-> auth_public_key,
      expiration |-> expiration,
      sig |-> [signer |-> node_id,
               payload |-> <<NetworkId, "EnvelopeTypeAuth", expiration, auth_public_key>>]]

\* StellarMessage: the variant and, for Hello, its payload
HelloMessage(h) == [type |-> "Hello", hello |-> h]
PlainMessage(t) == [type |-> t, hello |-> DefaultHello]
AuthMessage == PlainMessage("Auth")

\* the hello built by Peer::new
LocalHello(secret, n) ==
  [peer_id |-> LocalNodeId, nonce |-> n,
   cert |-> new_auth_cert(LocalNodeId, PublicKeyFrom(secret))]

(* --------------------------- key schedule ------------------------------ *)
\* faulty variant: the local key always comes first in the extract input
SharedKey_LocalFirst(secret, remote_pub_key, wcr) ==
  hkdf_extract(<<diffie_hellman(secret, remote_pub_key), PublicKeyFrom(secret), remote_pub_key>>)

\* set_remote_keys, first half: prk = HKDF-Extract(dh || public_a || public_b)
SharedKey(secret, remote_pub_key, wcr) ==
  LET public_a == IF wcr THEN PublicKeyFrom(secret) ELSE remote_pub_key
      public_b == IF wcr THEN remote_pub_key ELSE PublicKeyFrom(secret)
  IN hkdf_extract(<<diffie_hellman(secret, remote_pub_key), public_a, public_b>>)

\* set_remote_keys, "Set up sendingMacKey": the expand info
SendingInfo(local_nonce, received_nonce, wcr) ==
  <<IF wcr THEN 0 ELSE 1, local_nonce, received_nonce>>

\* set_remote_keys, "Set up receivingMacKey": the expand info
ReceivingInfo(local_nonce, received_nonce, wcr) ==
  <<IF wcr THEN 0 ELSE 1, received_nonce, local_nonce>>

\* set_remote_keys: the three keys it stores
set_remote_keys(secret, local_nonce, remote_pub_key, received_nonce, wcr) ==
  LET prk == SharedKey(secret, remote_pub_key, wcr)
  IN [auth_shared_key |-> prk,
      sended_mac_key |-> hkdf_expand(prk, SendingInfo(local_nonce, received_nonce, wcr)),
      received_mac_key |-> hkdf_expand(prk, ReceivingInfo(local_nonce, received_nonce, wcr))]

(* ------------------------------ codec ---------------------------------- *)
\* faulty variant: only HELLO is exempt from the MAC
IsUnprotected_HelloOnly(message) == message.type = "Hello"

\* send_message: match am0.message { Hello(_) | Error(_) => {} ... }
IsUnprotected(message) == message.type \in {"Hello", "Error"}

\* faulty variant: the increment is forgotten
increment_message_sequence_Forgotten(seq) == seq

\* increment_message_sequence (a u64; the model stays far below 2^64)
increment_message_sequence(seq) == seq + 1

\* faulty variant: the MAC is computed after the increment, over the next sequence number
Envelope_MacAfterIncrement(seq, mac_key, message) ==
  [sequence |-> seq,
   message |-> message,
   mac |-> IF message.type \in {"Hello", "Error"}
             THEN ZeroMac ELSE Hmac(mac_key, <<seq + 1, message>>)]

\* faulty variant: the envelope is stamped after the increment
Envelope_StampedAfterIncrement(seq, mac_key, message) ==
  [sequence |-> IF message.type \in {"Hello", "Error"} THEN seq ELSE seq + 1,
   message |-> message,
   mac |-> IF message.type \in {"Hello", "Error"}
             THEN ZeroMac ELSE Hmac(mac_key, <<seq + 1, message>>)]

\* send_message: the envelope am0 as it is serialized
Envelope(seq, mac_key, message) ==
  [sequence |-> seq,
   message |-> message,
   mac |-> IF IsUnprotected(message) THEN ZeroMac ELSE Hmac(mac_key, <<seq, message>>)]

\* faulty variant: every variant, HELLO and ERROR included, consumes a sequence number
SequenceAfterSend_EveryVariant(seq, message) == increment_message_sequence(seq)

\* send_message: send_message_sequence when it returns
SequenceAfterSend(seq, message) ==
  IF IsUnprotected(message) THEN seq ELSE increment_message_sequence(seq)

\* serde_xdr::to_writer / to_bytes succeed on the message: the serializer is
\* deterministic, so a message either serializes at every call or at none; an
\* owner can hand send_message a value the XDR layout rejects
Serializes(message) == "unencodable" \notin DOMAIN message

\* faulty variant: the counter is incremented before anything is serialized
SendSteps_IncrementFirst(message) ==
  IF IsUnprotected(message)
    THEN IF Serializes(message)
           THEN [ops |-> <<"to_bytes", "send_header", "write">>, panicked |-> FALSE]
           ELSE [ops |-> <<"to_bytes">>, panicked |-> TRUE]
    ELSE IF Serializes(message)
           THEN [ops |-> <<"increment", "to_writer", "mac", "to_bytes", "send_header",
                           "write">>, panicked |-> FALSE]
           ELSE [ops |-> <<"increment", "to_writer">>, panicked |-> TRUE]

\* the statements one send_message call executes, in order, the last one
\* panicking (unwrap) when the message does not serialize:
\* to_writer (sequence, message), mac, increment_message_sequence, to_bytes
\* (the whole envelope), send_header, write
SendSteps(message) ==
  IF IsUnprotected(message)
    THEN IF Serializes(message)
           THEN [ops |-> <<"to_bytes", "send_header", "write">>, panicked |-> FALSE]
           ELSE [ops |-> <<"to_bytes">>, panicked |-> TRUE]
    ELSE IF Serializes(message)
           THEN [ops |-> <<"to_writer", "mac", "increment", "to_bytes", "send_header",
                           "write">>, panicked |-> FALSE]
           ELSE [ops |-> <<"to_writer">>, panicked |-> TRUE]

\* serde_xdr::to_bytes(&am).len(): the size of the serialized envelope, by the XDR
\* layout of its variant (a HELLO with the local version string, an AUTH, and
\* a representative size for the others)
XdrLen(envelope) ==
  CASE envelope.message.type = "Hello" -> 304
    [] envelope.message.type = "Auth" -> 52
    [] OTHER -> 56

(* ------------------------------ framing -------------------------------- *)
\* faulty variant: the length is written least significant byte first
send_header_LittleEndian(message_length) ==
  LET b0 == (message_length \div 16777216) % 256
  IN <<message_length % 256,
       (message_length \div 256) % 256,
       (message_length \div 65536) % 256,
       IF b0 >= 128 THEN b0 ELSE b0 + 128>>

\* send_header: message_length | 0x8000_0000, big-endian, as 4 bytes
send_header(message_length) ==
  LET b0 == (message_length \div 16777216) % 256
  IN <<IF b0 >= 128 THEN b0 ELSE b0 + 128,
       (message_length \div 65536) % 256,
       (message_length \div 256) % 256,
       message_length % 256>>

\* receive_header: the 31-bit length of a header that was read in full
receive_header(header) ==
  (((header[1] % 128) * 256 + header[2]) * 256 + header[3]) * 256 + header[4]

\* one record on a stream: the header write and the body write of send_message
Record(envelope) ==
  [header |-> send_header(XdrLen(envelope)),
   body |-> [wellformed |-> TRUE, length |-> XdrLen(envelope), envelope |-> envelope]]

\* a record whose body does not decode as an AuthenticatedMessage
GarbageRecord ==
  [header |-> send_header(4),
   body |-> [wellformed |-> FALSE, length |-> 4,
             envelope |-> Envelope(0, ZeroKey, PlainMessage("Error"))]]

\* a record the remote stopped writing inside the body: the header announces
\* more bytes than follow
TruncatedRecord ==
  [header |-> send_header(52),
   body |-> [wellformed |-> FALSE, length |-> 8,
             envelope |-> Envelope(0, ZeroKey, PlainMessage("Error"))]]

\* faulty variant: a receive that turns away every variant but HELLO and AUTH
receive_message_HandshakeVariantsOnly(records) ==
  IF records = <<>>
    THEN [ok |-> FALSE, error |-> "Parse", short_header |-> TRUE, message_length |-> 0,
          envelope |-> GarbageRecord.body.envelope]
    ELSE LET message_length == receive_header(Head(records).header)
             body == Head(records).body
         IN IF body.length < message_length
              THEN [ok |-> FALSE, error |-> "TCP", short_header |-> FALSE,
                    message_length |-> message_length, envelope |-> body.envelope]
              ELSE IF /\ body.wellformed
                      /\ message_length = body.length
                      /\ body.envelope.message.type \in {"Hello", "Auth"}
                THEN [ok |-> TRUE, error |-> "", short_header |-> FALSE,
                      message_length |-> message_length, envelope |-> body.envelope]
                ELSE [ok |-> FALSE, error |-> "Parse", short_header |-> FALSE,
                      message_length |-> message_length, envelope |-> body.envelope]

\* receive_message on a stream holding `records`, the remote having closed
\* behind them. At end-of-stream read_exact of the header fails and
\* receive_header returns 0; read_exact of the 0-byte body then succeeds and the
\* empty buffer does not decode. A body shorter than announced fails in
\* read_exact (the `?`). Ok(envelope) or Err; short_header records that the
\* header was not read in full
receive_message(records) ==
  IF records = <<>>
    THEN LET message_length == 0
         IN [ok |-> FALSE, error |-> "Parse", short_header |-> TRUE,
             message_length |-> message_length,
             envelope |-> GarbageRecord.body.envelope]
    ELSE LET message_length == receive_header(Head(records).header)
             body == Head(records).body
         IN IF body.length < message_length
              THEN [ok |-> FALSE, error |-> "TCP", short_header |-> FALSE,
                    message_length |-> message_length, envelope |-> body.envelope]
              ELSE IF body.wellformed /\ message_length = body.length
                THEN [ok |-> TRUE, error |-> "", short_header |-> FALSE,
                      message_length |-> message_length, envelope |-> body.envelope]
                ELSE [ok |-> FALSE, error |-> "Parse", short_header |-> FALSE,
                      message_length |-> message_length, envelope |-> body.envelope]

(* ------------------------------- state --------------------------------- *)
VARIABLES
  piped,                  \* TRUE: sessions A and B hold the two ends of one connection;
                          \* FALSE: session A alone, connected to a foreign remote
  pc,                     \* where each session's owner is
  we_called_remote,       \* the role each session is run in
  auth_secret_key,        \* Peer.auth_secret_key
  nonce,                  \* Peer.nonce
  send_message_sequence,  \* Peer.send_message_sequence
  auth_shared_key,        \* Peer.auth_shared_key
  sended_mac_key,         \* Peer.sended_mac_key
  received_mac_key,       \* Peer.received_mac_key
  peer_info,              \* Peer.peer_info
  is_authenticated,       \* Peer.is_authenticated
  stream,                 \* Peer.stream, read side: the records not yet read
  closed,                 \* the remote has closed its end of the stream
  wire,                   \* history: every envelope send_message wrote, in order, with its writer
  accepted,               \* history: the envelopes receive_message returned Ok for
  dial,                   \* connect_to's input: does peer_address parse, and what
                          \* TcpStream::connect_timeout meets
  connected,              \* history: connect_to's result and the connects it attempted
  write_fault,            \* stream.write returns Err from now on
  write_failed,           \* history: which send_message call first had a write fail (0: none)
  last_receive,           \* history: how the last receive_message call ended
  send_steps,             \* history: the statements the last send_message call executed
  framing,                \* a frame header on its way through send_header and receive_header
  clones                  \* a session's clone: its own copy of the fields, and what the
                          \* two copies have written to the stream they share

vars == <<piped, pc, we_called_remote, auth_secret_key, nonce, send_message_sequence,
          auth_shared_key, sended_mac_key, received_mac_key, peer_info,
          is_authenticated, stream, closed, wire, accepted, dial, connected,
          write_fault, write_failed, last_receive, send_steps, framing, clones>>

\* a dial string that parses and a listener that accepts
GoodDial == [parses |-> TRUE, connect |-> "ok"]

\* what connect_to can be given and can meet
Dials ==
  {GoodDial, [parses |-> TRUE, connect |-> "refused"],
   [parses |-> TRUE, connect |-> "timeout"], [parses |-> FALSE, connect |-> "ok"]}

\* no header under way
NoFraming == [phase |-> "idle", n |-> 0, header |-> <<0, 0, 0, 0>>, length |-> 0]

\* the two owners of one connection once a session has been cloned
Copies == {"original", "clone"}

\* no clone made, nothing written by a copy
NoClones ==
  [made |-> FALSE, cloned_at |-> 0, send_message_sequence |-> 0,
   sended_mac_key |-> ZeroKey, is_authenticated |-> FALSE,
   sending |-> [c \in Copies |-> <<>>], sends |-> [c \in Copies |-> 0],
   bytes |-> <<>>]

\* Peer::new: the fields of a fresh session, and the histories before any call
FreshSessions ==
  /\ send_message_sequence = [p \in Peers |-> 0]
  /\ auth_shared_key = [p \in Peers |-> ZeroKey]
  /\ sended_mac_key = [p \in Peers |-> ZeroKey]
  /\ received_mac_key = [p \in Peers |-> ZeroKey]
  /\ peer_info = [p \in Peers |-> DefaultHello]
  /\ is_authenticated = [p \in Peers |-> FALSE]
  /\ stream = [p \in Peers |-> <<>>]
  /\ closed = [p \in Peers |-> FALSE]
  /\ wire = <<>>
  /\ accepted = [p \in Peers |-> <<>>]
  /\ connected = [p \in Peers |-> [result |-> "", attempts |-> 0]]
  /\ write_fault = [p \in Peers |-> FALSE]
  /\ write_failed = [p \in Peers |-> 0]
  /\ last_receive = [p \in Peers |-> [error |-> "", short_header |-> FALSE,
                                       message_length |-> 0]]
  /\ send_steps = [p \in Peers |-> [ops |-> <<>>, panicked |-> FALSE,
                                     sequence_before |-> 0]]
  /\ clones = NoClones

\* Peer::new on a connected stream, for each session that exists; the session
\* that dials a foreign remote is still to be made by connect_to
Init ==
  /\ piped \in BOOLEAN
  /\ we_called_remote \in [Peers -> BOOLEAN]
  /\ piped => we_called_remote = [p \in Peers |-> p = "A"]
  /\ ~piped => ~we_called_remote["B"]
  /\ pc = [p \in Peers |-> IF piped THEN "new"
                            ELSE IF p = "B" THEN "absent"
                            ELSE IF we_called_remote[p] THEN "unconnected"
                            ELSE "new"]
  /\ dial \in [Peers -> Dials]
  /\ \A p \in Peers : pc[p] # "unconnected" => dial[p] = GoodDial
  /\ auth_secret_key \in [Peers -> Secrets]
  /\ nonce \in [Peers -> Nonces]
  /\ ~piped => auth_secret_key = [p \in Peers |-> 1] /\ nonce["B"] = 1
  /\ FreshSessions
  /\ framing = NoFraming

\* self.hello
hello(p) == LocalHello(auth_secret_key[p], nonce[p])

\* the envelopes session p has written so far
SentBy(p) ==
  LET from_p(w) == w.from = p
      mine == SelectSeq(wire, from_p)
  IN [i \in 1..Len(mine) |-> mine[i].envelope]

\* handle_hello: the keys and peer_info after it, given the session's current ones
handle_hello(p, message) ==
  IF message.type = "Hello"
    THEN [keys |-> set_remote_keys(auth_secret_key[p], nonce[p],
                                   message.hello.cert.pubkey, message.hello.nonce,
                                   we_called_remote[p]),
          peer_info |-> message.hello]
    ELSE [keys |-> [auth_shared_key |-> auth_shared_key[p],
                    sended_mac_key |-> sended_mac_key[p],
                    received_mac_key |-> received_mac_key[p]],
          peer_info |-> peer_info[p]]

\* send_message(message) by session p under send key mac_key, after p has taken
\* `taken` records off its own stream: the frame of the stream, the wire and the
\* sequence counter
Write(p, mac_key, message, taken) ==
  LET envelope == Envelope(send_message_sequence[p], mac_key, message)
  IN /\ send_message_sequence' =
          [send_message_sequence EXCEPT ![p] = SequenceAfterSend(@, message)]
     /\ wire' = Append(wire, [from |-> p, envelope |-> envelope])
     /\ send_steps' = [send_steps EXCEPT ![p] =
          [ops |-> SendSteps(message).ops, panicked |-> FALSE,
           sequence_before |-> send_message_sequence[p]]]
     /\ write_failed' = [write_failed EXCEPT ![p] =
          IF @ = 0 /\ write_fault[p] THEN Len(SentBy(p)) + 1 ELSE @]
     /\ stream' = [q \in Peers |->
          IF q = p THEN SubSeq(stream[p], taken + 1, Len(stream[p]))
          ELSE IF piped THEN Append(stream[q], Record(envelope))
          ELSE stream[q]]

\* no send_message: p only takes `taken` records off its stream
NoWrite(p, taken) ==
  /\ stream' = [stream EXCEPT ![p] = SubSeq(@, taken + 1, Len(@))]
  /\ UNCHANGED <<send_message_sequence, wire, send_steps, write_failed>>

\* set_authenticated
set_authenticated(flag) == TRUE

\* faulty variant: the responder answers the HELLO with its AUTH at once
FirstReply_AuthAtOnce(p) == AuthMessage

\* what a session sends when its first receive returned Ok: the initiator its
\* AUTH, the responder its HELLO
FirstReply(p) == IF we_called_remote[p] THEN AuthMessage ELSE HelloMessage(hello(p))

(* ------------------------------ connect_to ---------------------------- *)
\* faulty variant: the connect is attempted before the address is looked at
connect_to_ConnectsFirst(d) ==
  IF d.connect # "ok" THEN [result |-> "ConnectionFail", attempts |-> 1, session |-> FALSE]
  ELSE IF ~d.parses THEN [result |-> "InvalidPeerAddress", attempts |-> 1, session |-> FALSE]
  ELSE [result |-> "Ok", attempts |-> 1, session |-> TRUE]

\* connect_to(peer_address): its result, the connects it attempted, and whether
\* Peer::new ran
connect_to(d) ==
  IF ~d.parses THEN [result |-> "InvalidPeerAddress", attempts |-> 0, session |-> FALSE]
  ELSE IF d.connect = "ok" THEN [result |-> "Ok", attempts |-> 1, session |-> TRUE]
  ELSE [result |-> "ConnectionFail", attempts |-> 1, session |-> FALSE]

\* the owner dials the remote
ConnectTo(p) ==
  /\ pc[p] = "unconnected"
  /\ connected' = [connected EXCEPT ![p] =
       [result |-> connect_to(dial[p]).result, attempts |-> connect_to(dial[p]).attempts]]
  /\ pc' = [pc EXCEPT ![p] = IF connect_to(dial[p]).session THEN "new" ELSE "no_session"]
  /\ UNCHANGED <<dial, write_fault, write_failed, last_receive, send_steps, framing, clones,
                 piped, we_called_remote, auth_secret_key, nonce, send_message_sequence,
                 auth_shared_key, sended_mac_key, received_mac_key, peer_info,
                 is_authenticated, stream, closed, wire, accepted>>

(* --------------------------- start_authentication ---------------------- *)
\* start_authentication up to its first receive_message:
\* the initiator sends its HELLO, the responder sends nothing
StartAuthentication(p) ==
  /\ pc[p] = "new"
  /\ IF we_called_remote[p]
       THEN Write(p, sended_mac_key[p], HelloMessage(hello(p)), 0)
       ELSE NoWrite(p, 0)
  /\ pc' = [pc EXCEPT ![p] = "receive_hello"]
  /\ UNCHANGED <<dial, connected, write_fault, last_receive, framing, clones,
                 piped, we_called_remote, auth_secret_key, nonce, auth_shared_key,
                 sended_mac_key, received_mac_key, peer_info, is_authenticated,
                 closed, accepted>>

\* the first receive_message returns; on Ok handle_hello runs and the next
\* message is sent (AUTH by the initiator, HELLO by the responder); on Err
\* start_authentication returns
ReceiveHello(p) ==
  /\ pc[p] = "receive_hello"
  /\ stream[p] # <<>> \/ closed[p]
  /\ last_receive' = [last_receive EXCEPT ![p] =
       [error |-> receive_message(stream[p]).error,
        short_header |-> receive_message(stream[p]).short_header,
        message_length |-> receive_message(stream[p]).message_length]]
  /\ LET r == receive_message(stream[p])
         taken == IF stream[p] = <<>> THEN 0 ELSE 1
         h == handle_hello(p, r.envelope.message)
     IN IF r.ok
          THEN /\ auth_shared_key' = [auth_shared_key EXCEPT ![p] = h.keys.auth_shared_key]
               /\ sended_mac_key' = [sended_mac_key EXCEPT ![p] = h.keys.sended_mac_key]
               /\ received_mac_key' = [received_mac_key EXCEPT ![p] = h.keys.received_mac_key]
               /\ peer_info' = [peer_info EXCEPT ![p] = h.peer_info]
               /\ accepted' = [accepted EXCEPT ![p] = Append(@, r.envelope)]
               /\ Write(p, h.keys.sended_mac_key, FirstReply(p), taken)
               /\ pc' = [pc EXCEPT ![p] = "receive_auth"]
          ELSE /\ NoWrite(p, taken)
               /\ pc' = [pc EXCEPT ![p] = "aborted"]
               /\ UNCHANGED <<auth_shared_key, sended_mac_key, received_mac_key,
                              peer_info, accepted>>
  /\ UNCHANGED <<dial, connected, write_fault, framing, clones,
                 piped, we_called_remote, auth_secret_key, nonce, is_authenticated, closed>>

\* the last receive_message returns; on Ok the responder sends its AUTH and
\* set_authenticated runs; on Err start_authentication returns
ReceiveAuth(p) ==
  /\ pc[p] = "receive_auth"
  /\ stream[p] # <<>> \/ closed[p]
  /\ last_receive' = [last_receive EXCEPT ![p] =
       [error |-> receive_message(stream[p]).error,
        short_header |-> receive_message(stream[p]).short_header,
        message_length |-> receive_message(stream[p]).message_length]]
  /\ LET r == receive_message(stream[p])
         taken == IF stream[p] = <<>> THEN 0 ELSE 1
     IN IF r.ok
          THEN /\ accepted' = [accepted EXCEPT ![p] = Append(@, r.envelope)]
               /\ IF we_called_remote[p]
                    THEN NoWrite(p, taken)
                    ELSE Write(p, sended_mac_key[p], AuthMessage, taken)
               /\ is_authenticated' = [is_authenticated EXCEPT ![p] = set_authenticated(@)]
               /\ pc' = [pc EXCEPT ![p] = "done"]
          ELSE /\ NoWrite(p, taken)
               /\ pc' = [pc EXCEPT ![p] = "aborted"]
               /\ UNCHANGED <<is_authenticated, accepted>>
  /\ UNCHANGED <<dial, connected, write_fault, framing, clones,
                 piped, we_called_remote, auth_secret_key, nonce, auth_shared_key,
                 sended_mac_key, received_mac_key, peer_info, closed>>

(* ------------------------- calls by the owner -------------------------- *)
\* what the owner of a session sends
AppMessages(p) ==
  {HelloMessage(hello(p)), PlainMessage("Error"), PlainMessage("Transaction")}

\* send_message called by the owner: after start_authentication authenticated
\* the session, or on a session keyed directly with set_remote_keys
SendMessage(p, message) ==
  /\ \/ pc[p] = "done" /\ Len(SentBy(p)) < 2 + MaxAppSends
     \/ pc[p] = "keyed" /\ Len(SentBy(p)) < MaxKeyedSends
  /\ Write(p, sended_mac_key[p], message, 0)
  /\ UNCHANGED <<dial, connected, write_fault, last_receive, framing, clones,
                 piped, pc, we_called_remote, auth_secret_key, nonce, auth_shared_key,
                 sended_mac_key, received_mac_key, peer_info, is_authenticated,
                 closed, accepted>>

\* values of StellarMessage that serde_xdr refuses to serialize
UnencodableMessages ==
  {[type |-> t, hello |-> DefaultHello, unencodable |-> TRUE] : t \in {"Error", "Transaction"}}

\* send_message called by the owner with a message that does not serialize:
\* the call runs up to the unwrap that panics, and the owner's thread unwinds
SendUnserializable(p, message) ==
  /\ \/ pc[p] = "done" /\ Len(SentBy(p)) < 2 + MaxAppSends
     \/ pc[p] = "keyed" /\ Len(SentBy(p)) < MaxKeyedSends
  /\ LET steps == SendSteps(message)
     IN /\ send_steps' = [send_steps EXCEPT ![p] =
             [ops |-> steps.ops, panicked |-> steps.panicked,
              sequence_before |-> send_message_sequence[p]]]
        /\ send_message_sequence' = [send_message_sequence EXCEPT ![p] =
             IF \E i \in 1..Len(steps.ops) : steps.ops[i] = "increment"
               THEN increment_message_sequence(@) ELSE @]
  /\ pc' = [pc EXCEPT ![p] = "panicked"]
  /\ UNCHANGED <<dial, connected, write_fault, write_failed, last_receive, framing, clones,
                 piped, we_called_remote, auth_secret_key, nonce, auth_shared_key,
                 sended_mac_key, received_mac_key, peer_info, is_authenticated,
                 stream, closed, wire, accepted>>

\* set_remote_keys called by the owner on a fresh session (no handshake)
SetRemoteKeys(p, remote_pub_key, received_nonce) ==
  /\ ~piped
  /\ pc[p] = "new"
  /\ LET k == set_remote_keys(auth_secret_key[p], nonce[p], remote_pub_key,
                              received_nonce, we_called_remote[p])
     IN /\ auth_shared_key' = [auth_shared_key EXCEPT ![p] = k.auth_shared_key]
        /\ sended_mac_key' = [sended_mac_key EXCEPT ![p] = k.sended_mac_key]
        /\ received_mac_key' = [received_mac_key EXCEPT ![p] = k.received_mac_key]
  /\ pc' = [pc EXCEPT ![p] = "keyed"]
  /\ UNCHANGED <<dial, connected, write_fault, write_failed, last_receive, send_steps, framing, clones,
                 piped, we_called_remote, auth_secret_key, nonce, send_message_sequence,
                 peer_info, is_authenticated, stream, closed, wire, accepted>>

(* --------------------------- a foreign remote -------------------------- *)
\* the certificates a foreign remote can present: signed by its identity or by
\* someone else, expiring in an hour or already expired
RemoteCerts ==
  {[pubkey |-> PublicKeyFrom(ForeignSecret),
    expiration |-> e,
    sig |-> [signer |-> s,
             payload |-> <<NetworkId, "EnvelopeTypeAuth", e, PublicKeyFrom(ForeignSecret)>>]] :
     e \in {UnixTime + expiration_limit, UnixTime - 1},
     s \in {ForeignNodeId, "forger"}}

\* the envelopes a foreign remote can write to session p
RemoteEnvelopes(p) ==
  {[sequence |-> 0,
    message |-> HelloMessage([peer_id |-> ForeignNodeId, nonce |-> n, cert |-> c]),
    mac |-> ZeroMac] : n \in Nonces, c \in RemoteCerts}
  \cup
  {[sequence |-> s, message |-> PlainMessage(t), mac |-> m] :
     s \in 0..MaxRemoteSeq,
     t \in {"Auth", "Error", "Transaction"},
     m \in {ZeroMac}}
  \cup
  UNION {{[sequence |-> s, message |-> PlainMessage(t),
           mac |-> Hmac(k, <<s, PlainMessage(t)>>)] :
            k \in {received_mac_key[p], hkdf_expand(ZeroKey, <<>>)}} :
         s \in 0..MaxRemoteSeq, t \in {"Auth", "Transaction"}}

\* the session is blocked in receive_message with nothing to read
AwaitsRemote(p) ==
  /\ ~piped
  /\ pc[p] \in {"receive_hello", "receive_auth"}
  /\ stream[p] = <<>>
  /\ ~closed[p]

\* the remote writes one well-formed record
RemoteWrite(p, envelope) ==
  /\ AwaitsRemote(p)
  /\ stream' = [stream EXCEPT ![p] = Append(@, Record(envelope))]
  /\ UNCHANGED <<dial, connected, write_fault, write_failed, last_receive, send_steps, framing, clones,
                 piped, pc, we_called_remote, auth_secret_key, nonce,
                 send_message_sequence, auth_shared_key, sended_mac_key,
                 received_mac_key, peer_info, is_authenticated, closed, wire, accepted>>

\* the remote writes a record that does not decode
RemoteGarbage(p) ==
  /\ AwaitsRemote(p)
  /\ stream' = [stream EXCEPT ![p] = Append(@, GarbageRecord)]
  /\ UNCHANGED <<dial, connected, write_fault, write_failed, last_receive, send_steps, framing, clones,
                 piped, pc, we_called_remote, auth_secret_key, nonce,
                 send_message_sequence, auth_shared_key, sended_mac_key,
                 received_mac_key, peer_info, is_authenticated, closed, wire, accepted>>

\* the remote closes the connection
RemoteClose(p) ==
  /\ AwaitsRemote(p)
  /\ closed' = [closed EXCEPT ![p] = TRUE]
  /\ UNCHANGED <<dial, connected, write_fault, write_failed, last_receive, send_steps, framing, clones,
                 piped, pc, we_called_remote, auth_secret_key, nonce,
                 send_message_sequence, auth_shared_key, sended_mac_key,
                 received_mac_key, peer_info, is_authenticated, stream, wire, accepted>>

\* the remote stops inside a record's body and closes
RemoteTruncate(p) ==
  /\ AwaitsRemote(p)
  /\ stream' = [stream EXCEPT ![p] = Append(@, TruncatedRecord)]
  /\ closed' = [closed EXCEPT ![p] = TRUE]
  /\ UNCHANGED <<dial, connected, write_fault, write_failed, last_receive, send_steps, framing, clones,
                 piped, pc, we_called_remote, auth_secret_key, nonce,
                 send_message_sequence, auth_shared_key, sended_mac_key,
                 received_mac_key, peer_info, is_authenticated, wire, accepted>>

\* from now on stream.write returns Err on session p's socket (a signal
\* interrupting the call, a reset, a full buffer), reads being unaffected
WriteFault(p) ==
  /\ ~piped
  /\ pc[p] \in {"new", "receive_hello", "receive_auth"}
  /\ ~write_fault[p]
  /\ write_fault' = [write_fault EXCEPT ![p] = TRUE]
  /\ UNCHANGED <<dial, connected, write_failed, last_receive, send_steps, framing, clones,
                 piped, pc, we_called_remote, auth_secret_key, nonce,
                 send_message_sequence, auth_shared_key, sended_mac_key,
                 received_mac_key, peer_info, is_authenticated, stream, closed,
                 wire, accepted>>

(* --------------------------- a cloned session -------------------------- *)
\* faulty variant: the clone starts counting from 0
clone_FreshSequence(sequence, mac_key, authenticated) ==
  [send_message_sequence |-> 0, sended_mac_key |-> mac_key,
   is_authenticated |-> authenticated]

\* Peer::clone: the fields of the copy (the stream handle is duplicated, the
\* connection is the same)
clone(sequence, mac_key, authenticated) ==
  [send_message_sequence |-> sequence, sended_mac_key |-> mac_key,
   is_authenticated |-> authenticated]

\* the owner clones its session, outside any send_message call of its own
CloneSession(p) ==
  /\ pc[p] = "keyed"
  /\ ~clones.made
  /\ clones.sending["original"] = <<>>
  /\ LET copy == clone(send_message_sequence[p], sended_mac_key[p], is_authenticated[p])
     IN clones' = [clones EXCEPT
          !.made = TRUE,
          !.cloned_at = send_message_sequence[p],
          !.send_message_sequence = copy.send_message_sequence,
          !.sended_mac_key = copy.sended_mac_key,
          !.is_authenticated = copy.is_authenticated]
  /\ UNCHANGED <<dial, connected, write_fault, write_failed, last_receive, send_steps,
                 framing, piped, pc, we_called_remote, auth_secret_key, nonce,
                 send_message_sequence, auth_shared_key, sended_mac_key,
                 received_mac_key, peer_info, is_authenticated, stream, closed,
                 wire, accepted>>

\* send_message by the owner of copy c, up to and including send_header: the
\* envelope is stamped and MACed from the copy's own fields, the copy's
\* counter is incremented, and the 4 header bytes go to the shared stream
SendMessageHeader(p, c, message) ==
  /\ pc[p] = "keyed"
  /\ c = "clone" => clones.made
  /\ clones.sending[c] = <<>>
  /\ clones.sends["original"] + clones.sends["clone"] < MaxCloneSends
  /\ LET sequence == IF c = "original" THEN send_message_sequence[p]
                     ELSE clones.send_message_sequence
         mac_key == IF c = "original" THEN sended_mac_key[p] ELSE clones.sended_mac_key
         envelope == Envelope(sequence, mac_key, message)
     IN /\ clones' = [clones EXCEPT
             !.send_message_sequence =
                IF c = "clone" THEN SequenceAfterSend(@, message) ELSE @,
             !.sending[c] = <<envelope>>,
             !.sends[c] = @ + 1,
             !.bytes = Append(@, [copy |-> c, part |-> "header",
                                  header |-> send_header(XdrLen(envelope)),
                                  envelope |-> envelope])]
        /\ send_message_sequence' = [send_message_sequence EXCEPT ![p] =
             IF c = "original" THEN SequenceAfterSend(@, message) ELSE @]
  /\ UNCHANGED <<dial, connected, write_fault, write_failed, last_receive, send_steps,
                 framing, piped, pc, we_called_remote, auth_secret_key, nonce,
                 auth_shared_key, sended_mac_key, received_mac_key, peer_info,
                 is_authenticated, stream, closed, wire, accepted>>

\* the rest of that send_message call: the body goes to the shared stream
SendMessageBody(p, c) ==
  /\ clones.sending[c] # <<>>
  /\ pc[p] = "keyed"
  /\ clones' = [clones EXCEPT
       !.sending[c] = <<>>,
       !.bytes = Append(@, [copy |-> c, part |-> "body",
                            header |-> send_header(XdrLen(clones.sending[c][1])),
                            envelope |-> clones.sending[c][1]])]
  /\ wire' = Append(wire, [from |-> p, envelope |-> clones.sending[c][1]])
  /\ UNCHANGED <<dial, connected, write_fault, write_failed, last_receive, send_steps,
                 framing, piped, pc, we_called_remote, auth_secret_key, nonce,
                 send_message_sequence, auth_shared_key, sended_mac_key,
                 received_mac_key, peer_info, is_authenticated, stream, closed,
                 accepted>>

(* ---------------------- a header through the framing ------------------- *)
\* the lengths given to send_header: the small ones and the ones around the
\* byte boundaries, up to 2^31 - 1
Lengths == 0..MaxSmallLength \cup {255, 256, 65535, 65536, 16777215, 16777216, 2147483647}

\* headers written by someone else, with the last-fragment bit set or clear
ForeignHeaders ==
  {<<255, 255, 255, 255>>, <<127, 255, 255, 255>>, <<128, 0, 0, 5>>, <<0, 0, 0, 5>>,
   <<129, 2, 3, 4>>, <<1, 2, 3, 4>>}

session_vars ==
  <<piped, pc, we_called_remote, auth_secret_key, nonce, send_message_sequence,
    auth_shared_key, sended_mac_key, received_mac_key, peer_info, is_authenticated,
    stream, closed, wire, accepted, dial, connected, write_fault, write_failed,
    last_receive, send_steps, clones>>

\* send_header(n) writes its 4 bytes
SendHeader ==
  /\ framing.phase = "input"
  /\ framing' = [framing EXCEPT !.phase = "sent", !.header = send_header(framing.n)]
  /\ UNCHANGED session_vars

\* receive_header reads 4 bytes
ReceiveHeader ==
  /\ framing.phase \in {"sent", "foreign"}
  /\ framing' = [framing EXCEPT
       !.phase = IF @ = "sent" THEN "received" ELSE "received_foreign",
       !.length = receive_header(framing.header)]
  /\ UNCHANGED session_vars

(* --------------------------- specifications ---------------------------- *)
Next ==
  \/ \E p \in Peers : ConnectTo(p)
  \/ \E p \in Peers : \E m \in UnencodableMessages : SendUnserializable(p, m)
  \/ \E p \in Peers : StartAuthentication(p)
  \/ \E p \in Peers : ReceiveHello(p)
  \/ \E p \in Peers : ReceiveAuth(p)
  \/ \E p \in Peers : \E m \in AppMessages(p) : SendMessage(p, m)
  \/ \E p \in Peers : \E n \in Nonces : SetRemoteKeys(p, PublicKeyFrom(ForeignSecret), n)
  \/ \E p \in Peers : \E e \in RemoteEnvelopes(p) : RemoteWrite(p, e)
  \/ \E p \in Peers : RemoteGarbage(p)
  \/ \E p \in Peers : RemoteClose(p)

Spec == Init /\ [][Next]_vars

\* two sessions of this program on one connection, each owner running
\* start_authentication on a thread of its own
InitPair == Init /\ piped

NextPair ==
  \/ \E p \in Peers : StartAuthentication(p)
  \/ \E p \in Peers : ReceiveHello(p)
  \/ \E p \in Peers : ReceiveAuth(p)

SpecPair ==
  /\ InitPair
  /\ [][NextPair]_vars
  /\ \A p \in Peers : WF_vars(StartAuthentication(p) \/ ReceiveHello(p) \/ ReceiveAuth(p))

\* one session against a foreign remote, over a connection on which writes can
\* start to fail and the remote can stop in the middle of a record; the owner's
\* thread keeps running, the remote owes nothing
InitIo == Init /\ ~piped

NextIo ==
  \/ \E p \in Peers : ConnectTo(p)
  \/ \E p \in Peers : \E m \in UnencodableMessages : SendUnserializable(p, m)
  \/ \E p \in Peers : StartAuthentication(p)
  \/ \E p \in Peers : ReceiveHello(p)
  \/ \E p \in Peers : ReceiveAuth(p)
  \/ \E p \in Peers : \E m \in AppMessages(p) : SendMessage(p, m)
  \/ \E p \in Peers : \E n \in Nonces : SetRemoteKeys(p, PublicKeyFrom(ForeignSecret), n)
  \/ \E p \in Peers : \E e \in RemoteEnvelopes(p) : RemoteWrite(p, e)
  \/ \E p \in Peers : RemoteGarbage(p)
  \/ \E p \in Peers : RemoteClose(p)
  \/ \E p \in Peers : RemoteTruncate(p)
  \/ \E p \in Peers : WriteFault(p)

SpecIo ==
  /\ InitIo
  /\ [][NextIo]_vars
  /\ \A p \in Peers :
       WF_vars(ConnectTo(p) \/ StartAuthentication(p) \/ ReceiveHello(p) \/ ReceiveAuth(p))

\* send_header and receive_header on their own, no session involved
InitFraming ==
  /\ piped = FALSE
  /\ pc = [p \in Peers |-> "absent"]
  /\ we_called_remote = [p \in Peers |-> FALSE]
  /\ dial = [p \in Peers |-> GoodDial]
  /\ auth_secret_key = [p \in Peers |-> 1]
  /\ nonce = [p \in Peers |-> 1]
  /\ FreshSessions
  /\ framing \in
       {[phase |-> "input", n |-> n, header |-> <<0, 0, 0, 0>>, length |-> 0] : n \in Lengths}
       \cup
       {[phase |-> "foreign", n |-> 0, header |-> h, length |-> 0] : h \in ForeignHeaders}

NextFraming == SendHeader \/ ReceiveHeader

SpecFraming == InitFraming /\ [][NextFraming]_vars

\* a session keyed by its owner, cloned, and used by two owners at once, each
\* on a thread of its own
InitClone == Init /\ ~piped /\ ~we_called_remote["A"] /\ nonce["A"] = 1

NextClone ==
  \/ \E p \in Peers : \E n \in Nonces : SetRemoteKeys(p, PublicKeyFrom(ForeignSecret), n)
  \/ \E p \in Peers : CloneSession(p)
  \/ \E p \in Peers : \E c \in Copies : \E m \in AppMessages(p) : SendMessageHeader(p, c, m)
  \/ \E p \in Peers : \E c \in Copies : SendMessageBody(p, c)

SpecClone == InitClone /\ [][NextClone]_vars

(* ------------------------------ claims --------------------------------- *)
IsProtected(envelope) == envelope.message.type \notin {"Hello", "Error"}

\* in sequence s, j is the first MAC-protected envelope after i
NextProtected(s, i, j) ==
  /\ i < j
  /\ IsProtected(s[j])
  /\ \A k \in (i + 1)..(j - 1) : ~IsProtected(s[k])

\* C1 as stated: after ANY outbound envelope carrying sequence s, HELLO and ERROR
\* included, the next MAC-protected outbound envelope carries s + 1.
C1_AnyEnvelopeThenNext ==
  \A p \in Peers :
    LET s == SentBy(p)
    IN \A i, j \in 1..Len(s) :
         NextProtected(s, i, j) => s[j].sequence = s[i].sequence + 1

\* C1 amended: after a MAC-protected outbound envelope carrying sequence s the next
\* MAC-protected outbound envelope carries s + 1; after a HELLO or ERROR carrying
\* s it carries s itself; the first MAC-protected envelope of a session carries 0.
C1_ProtectedGapFree ==
  \A p \in Peers :
    LET s == SentBy(p)
    IN /\ \A i, j \in 1..Len(s) :
            NextProtected(s, i, j) =>
              s[j].sequence = IF IsProtected(s[i]) THEN s[i].sequence + 1 ELSE s[i].sequence
       /\ \A j \in 1..Len(s) :
            (IsProtected(s[j]) /\ \A k \in 1..(j - 1) : ~IsProtected(s[k])) =>
              s[j].sequence = 0

\* C1 witness: a session has sent two MAC-protected envelopes with a HELLO or
\* ERROR between them, and two more back to back.
C1_Witness ==
  \E p \in Peers :
    LET s == SentBy(p)
    IN \E i, j \in 1..Len(s) :
         /\ IsProtected(s[i]) /\ NextProtected(s, i, j) /\ j > i + 1
         /\ \E k \in 1..(Len(s) - 1) : IsProtected(s[k]) /\ IsProtected(s[k + 1])

\* both sessions of a connection have run handle_hello on the other's HELLO
HellosExchanged ==
  /\ piped
  /\ \A p \in Peers :
       /\ pc[p] \in {"receive_auth", "done"}
       /\ peer_info[p] = hello(Other(p))

\* C2: after two honest sessions in opposite roles exchanged HELLOs, the
\* initiator's send MAC key is the responder's receive MAC key and the
\* initiator's receive MAC key is the responder's send MAC key.
C2_MacKeysAgree ==
  HellosExchanged =>
    /\ sended_mac_key["A"] = received_mac_key["B"]
    /\ received_mac_key["A"] = sended_mac_key["B"]

\* C3: every MAC on the wire was computed under a key derived by
\* set_remote_keys, never under the initial all-zero key.
C3_NoMacUnderZeroKey ==
  \A i \in 1..Len(wire) :
    IsProtected(wire[i].envelope) => wire[i].envelope.mac.key # ZeroKey

\* the envelopes start_authentication has sent by the time of its first receive
SentBeforeFirstReceive(p) == IF we_called_remote[p] THEN 1 ELSE 0

\* C4: when the first envelope received in the handshake decodes but is not a
\* HELLO, the session sends nothing further and is never authenticated.
C4_NonHelloAborts ==
  \A p \in Peers :
    (Len(accepted[p]) >= 1 /\ accepted[p][1].message.type # "Hello") =>
      /\ ~is_authenticated[p]
      /\ Len(SentBy(p)) = SentBeforeFirstReceive(p)

\* who wrote which variant, in the order of writing
WireTrace == [i \in 1..Len(wire) |-> <<wire[i].from, wire[i].envelope.message.type>>]

FourEnvelopes == <<<<"A", "Hello">>, <<"B", "Hello">>, <<"A", "Auth">>, <<"B", "Auth">>>>

\* C5: on a reliable FIFO connection an initiator and a responder both end
\* authenticated, having exchanged exactly initiator HELLO, responder HELLO,
\* initiator AUTH, responder AUTH, in that order.
C5_HandshakeCompletes ==
  /\ <>[](/\ is_authenticated["A"] /\ is_authenticated["B"]
          /\ pc["A"] = "done" /\ pc["B"] = "done"
          /\ WireTrace = FourEnvelopes)
  /\ [](/\ Len(WireTrace) <= 4
        /\ WireTrace = SubSeq(FourEnvelopes, 1, Len(WireTrace)))

\* C5 witness: both sessions authenticated with the four envelopes written.
C5_Witness ==
  /\ piped
  /\ is_authenticated["A"] /\ is_authenticated["B"]
  /\ Len(wire) = 4

\* the MAC-protected envelopes among the first n that p accepted
ProtectedAccepted(p, n) == {i \in 1..n : IsProtected(accepted[p][i])}

\* C6: every inbound envelope other than HELLO and ERROR that a session accepts
\* carries the MAC of (sequence, message) under recv_mac_key and the next
\* inbound sequence number.
C6_InboundVerified ==
  \A p \in Peers :
    \A i \in 1..Len(accepted[p]) :
      LET e == accepted[p][i]
      IN IsProtected(e) =>
           /\ e.mac = Hmac(received_mac_key[p], <<e.sequence, e.message>>)
           /\ e.sequence = Cardinality(ProtectedAccepted(p, i - 1))

\* verify(cert, peer_identity, expected_network_id) as the specification of the
\* certificate states it: the signature is the peer's over this payload and
\* the certificate has not expired
CertVerifies(h) ==
  /\ h.cert.sig.signer = h.peer_id
  /\ h.cert.sig.payload = <<NetworkId, "EnvelopeTypeAuth", h.cert.expiration, h.cert.pubkey>>
  /\ h.cert.expiration >= UnixTime

\* C7: a session that received a HELLO whose AuthCert does not verify sends
\* nothing after it, derives no keys and is never authenticated.
C7_BadCertAborts ==
  \A p \in Peers :
    (/\ Len(accepted[p]) >= 1
     /\ accepted[p][1].message.type = "Hello"
     /\ ~CertVerifies(accepted[p][1].message.hello)) =>
      /\ ~is_authenticated[p]
      /\ Len(SentBy(p)) = SentBeforeFirstReceive(p)
      /\ auth_shared_key[p] = ZeroKey
      /\ sended_mac_key[p] = ZeroKey
      /\ received_mac_key[p] = ZeroKey

\* the step writes one envelope, and session p writes it
Writes(p) ==
  /\ Len(wire') = Len(wire) + 1
  /\ wire'[Len(wire')].from = p

\* C8: the MAC of every outbound envelope other than HELLO and ERROR is the HMAC,
\* under the session's send key, of the sequence carried in that same envelope
\* (send_seq before the increment) and the message.
C8_MacOverCarriedSequence ==
  [][\A p \in Peers :
       LET e == wire'[Len(wire')].envelope
       IN (Writes(p) /\ IsProtected(e)) =>
            /\ e.sequence = send_message_sequence[p]
            /\ e.mac = Hmac(sended_mac_key'[p], <<e.sequence, e.message>>)]_vars

\* C8 witness: a MAC-protected envelope with a sequence past 0 was written under
\* a derived key.
C8_Witness ==
  \E i \in 1..Len(wire) :
    /\ IsProtected(wire[i].envelope)
    /\ wire[i].envelope.sequence >= 1
    /\ wire[i].envelope.mac.key = sended_mac_key[wire[i].from]
    /\ sended_mac_key[wire[i].from] # ZeroKey

\* C9: every HELLO and every ERROR envelope written carries the all-zero MAC.
C9_PlaceholderMac ==
  \A i \in 1..Len(wire) :
    wire[i].envelope.message.type \in {"Hello", "Error"} => wire[i].envelope.mac = ZeroMac

\* C9 witness: authenticated sessions, their keys derived, have written a HELLO
\* and an ERROR after their AUTH.
C9_Witness ==
  \E i, j \in 1..Len(wire) :
    /\ \A k \in {i, j} : /\ is_authenticated[wire[k].from]
                         /\ sended_mac_key[wire[k].from] # ZeroKey
                         /\ wire[k].envelope.sequence >= 1
    /\ wire[i].envelope.message.type = "Hello"
    /\ wire[j].envelope.message.type = "Error"

\* the variants and the sequences of the envelopes p has written
SentTypes(p) == [i \in 1..Len(SentBy(p)) |-> SentBy(p)[i].message.type]
SentSequences(p) == [i \in 1..Len(SentBy(p)) |-> SentBy(p)[i].sequence]

\* scenario S4 has run on session p
S4Ran(p) ==
  /\ pc[p] = "keyed"
  /\ SentTypes(p) = <<"Transaction", "Transaction", "Transaction", "Hello", "Transaction">>

\* C10: sending HELLO or ERROR leaves send_seq unchanged and any other variant
\* adds one to it; three TRANSACTIONs, a HELLO and a TRANSACTION on a freshly
\* keyed session carry 0, 1, 2, (3), 3 and leave send_seq at 4.
C10_SequenceFrame ==
  /\ [][\A p \in Peers :
          LET e == wire'[Len(wire')].envelope
          IN IF Writes(p)
               THEN send_message_sequence'[p] = send_message_sequence[p]
                      + (IF e.message.type \in {"Hello", "Error"} THEN 0 ELSE 1)
               ELSE send_message_sequence'[p] = send_message_sequence[p]]_vars
  /\ [](\A p \in Peers :
          S4Ran(p) => /\ SentSequences(p) = <<0, 1, 2, 3, 3>>
                      /\ send_message_sequence[p] = 4)

\* C10 witness: scenario S4 has run.
C10_Witness == \E p \in Peers : S4Ran(p)

\* start_authentication has run all four steps of p's role
HandshakeRan(p) ==
  /\ Len(SentBy(p)) >= 2
  /\ {SentBy(p)[1].message.type, SentBy(p)[2].message.type} = {"Hello", "Auth"}
  /\ Len(accepted[p]) = 2
  /\ accepted[p][1].message.type = "Hello"

\* C11: is_authenticated is false on a new session, is true only on a session
\* whose start_authentication sent its HELLO and AUTH and received two
\* envelopes, the first a HELLO, and once true it stays true.
C11_AuthenticatedAfterHandshake ==
  /\ [](\A p \in Peers : pc[p] \in {"absent", "new"} => ~is_authenticated[p])
  /\ [](\A p \in Peers : is_authenticated[p] => HandshakeRan(p))
  /\ [][\A p \in Peers : is_authenticated[p] => is_authenticated'[p]]_vars

\* the key a session that handled a HELLO carrying remote_pub_key must hold:
\* Extract(dh || initiator's key || responder's key)
CallerFirstKey(p, remote_pub_key) ==
  hkdf_extract(<<diffie_hellman(auth_secret_key[p], remote_pub_key),
                 IF we_called_remote[p] THEN PublicKeyFrom(auth_secret_key[p])
                                        ELSE remote_pub_key,
                 IF we_called_remote[p] THEN remote_pub_key
                                        ELSE PublicKeyFrom(auth_secret_key[p])>>)

\* C12: the extract input is dh || A || B with A the initiator's ephemeral key
\* and B the responder's on whichever side computes it, so two honest sessions
\* in opposite roles hold the same shared_key.
C12_SharedKeyCallerFirst ==
  /\ \A p \in Peers :
       (Len(accepted[p]) >= 1 /\ accepted[p][1].message.type = "Hello") =>
         auth_shared_key[p] = CallerFirstKey(p, accepted[p][1].message.hello.cert.pubkey)
  /\ HellosExchanged => auth_shared_key["A"] = auth_shared_key["B"]

\* C12 witness: two sessions with different ephemeral keys have handled each
\* other's HELLO.
C12_Witness ==
  /\ HellosExchanged
  /\ auth_secret_key["A"] # auth_secret_key["B"]
  /\ auth_shared_key["A"] # ZeroKey

\* the MAC-protected envelopes p has written
ProtectedSent(p) == {i \in 1..Len(SentBy(p)) : IsProtected(SentBy(p)[i])}

\* C20: in a handshake on a fresh session the HELLO carries sequence 0, the AUTH
\* is the first MAC-protected envelope and carries sequence 0, and
\* start_authentication returns authenticated with send_seq = 1.
C20_HandshakeSequences ==
  /\ [](\A p \in Peers :
          pc[p] \in {"receive_hello", "receive_auth", "done", "aborted"} =>
            /\ \A i \in 1..Len(SentBy(p)) :
                 i <= 2 => /\ SentBy(p)[i].sequence = 0
                           /\ SentBy(p)[i].message.type \in {"Hello", "Auth"}
            /\ \A i \in ProtectedSent(p) :
                 (\A k \in ProtectedSent(p) : i <= k) =>
                   /\ SentBy(p)[i].message.type = "Auth"
                   /\ SentBy(p)[i].sequence = 0)
  /\ [][\A p \in Peers :
          (pc[p] # "done" /\ pc'[p] = "done") =>
            /\ is_authenticated'[p]
            /\ send_message_sequence'[p] = 1]_vars

\* C20 witness: an initiator and a responder have returned authenticated, each
\* having written its HELLO and its AUTH.
C20_Witness ==
  \A p \in Peers :
    /\ pc[p] = "done" /\ is_authenticated[p]
    /\ SentTypes(p) = <<"Hello", "Auth">>

\* the 31 low bits of a header, most significant byte first
Low31(header) ==
  (IF header[1] >= 128 THEN header[1] - 128 ELSE header[1]) * 16777216
  + header[2] * 65536 + header[3] * 256 + header[4]

\* the same header with the last-fragment bit the other way round
FlipHighBit(header) ==
  [header EXCEPT ![1] = IF @ >= 128 THEN @ - 128 ELSE @ + 128]

\* C13: for every length n below 2^31, receive_header decodes the 4 bytes of
\* send_header(n) to n; send_header always sets the high bit; receive_header's
\* result is the 31 low bits whatever the high bit is, so FF FF FF FF decodes
\* to 0x7FFFFFFF and 80 00 00 05 to 5, and send_header(5) writes 80 00 00 05
C13_HeaderRoundTrip ==
  /\ framing.phase = "received" => framing.length = framing.n
  /\ framing.phase \in {"sent", "received"} =>
       framing.header[1] >= 128 /\ Low31(framing.header) = framing.n
  /\ framing.phase \in {"sent", "received"} /\ framing.n = 5 =>
       framing.header = <<128, 0, 0, 5>>
  /\ framing.phase = "received_foreign" =>
       /\ framing.length = Low31(framing.header)
       /\ framing.length = Low31(FlipHighBit(framing.header))
       /\ framing.header = <<255, 255, 255, 255>> => framing.length = 2147483647
       /\ framing.header = <<128, 0, 0, 5>> => framing.length = 5

C13_Witness ==
  /\ framing.phase = "received"
  /\ framing.n = 2147483647
  /\ framing.length = 2147483647
  /\ framing.header = <<255, 255, 255, 255>>

\* C14: when the stream ends before all 4 header bytes are read, receive_message
\* returns the TCP (I/O) error, and does not go on with a record of length 0
C14_ShortHeaderIsIoError ==
  \A p \in Peers :
    last_receive[p].short_header =>
      last_receive[p].error = "TCP" /\ last_receive[p].message_length # 0

\* the position of the first `op` among the statements of a send_message call
\* (0: not executed)
StepOf(ops, op) ==
  IF \E i \in 1..Len(ops) : ops[i] = op
    THEN CHOOSE i \in 1..Len(ops) : ops[i] = op /\ \A j \in 1..(i - 1) : ops[j] # op
    ELSE 0

\* a send_message call that panicked left the counter as it found it
FailedSendKeepsSequence(p) ==
  send_steps[p].panicked =>
    /\ send_message_sequence[p] = send_steps[p].sequence_before
    /\ StepOf(send_steps[p].ops, "increment") = 0

\* C15 as stated: send_message increments send_seq only after the outbound
\* envelope has been serialized (to_bytes), and a send that fails to produce the
\* serialized envelope leaves send_seq as it was
C15_IncrementAfterEnvelopeSerialized ==
  \A p \in Peers :
    /\ StepOf(send_steps[p].ops, "increment") > 0 =>
         /\ StepOf(send_steps[p].ops, "to_bytes") > 0
         /\ StepOf(send_steps[p].ops, "to_bytes") < StepOf(send_steps[p].ops, "increment")
    /\ FailedSendKeepsSequence(p)

\* C15, amended: send_message increments send_seq after the sequence number and
\* the message have been serialized for the MAC (to_writer) and before the whole
\* envelope is serialized (to_bytes); a message that does not serialize fails
\* before the increment, so a send that fails to produce the serialized
\* envelope leaves send_seq as it was
C15_IncrementAfterMacInputSerialized ==
  \A p \in Peers :
    /\ StepOf(send_steps[p].ops, "increment") > 0 =>
         /\ StepOf(send_steps[p].ops, "to_writer") > 0
         /\ StepOf(send_steps[p].ops, "to_writer") < StepOf(send_steps[p].ops, "increment")
         /\ StepOf(send_steps[p].ops, "increment") < StepOf(send_steps[p].ops, "to_bytes")
    /\ FailedSendKeepsSequence(p)

C15_Witness ==
  \E p \in Peers :
    /\ send_steps[p].panicked
    /\ send_steps[p].ops = <<"to_writer">>
    /\ send_steps[p].sequence_before >= 1
    /\ send_message_sequence[p] = send_steps[p].sequence_before

\* C16: when a write fails while a handshake message (the first or the second
\* message a session sends) is being sent, is_authenticated remains false
C16_WriteFailureTerminates ==
  \A p \in Peers : write_failed[p] \in {1, 2} => ~is_authenticated[p]

\* C17: start_authentication always terminates, authenticated or aborted, even
\* when the remote never sends a byte and never closes the stream
C17_HandshakeTerminates ==
  \A p \in Peers :
    (pc[p] \in {"receive_hello", "receive_auth"}) ~> (pc[p] \in {"done", "aborted"})

\* the session is one that the owner makes with connect_to
Dialled(p) == ~piped /\ we_called_remote[p] /\ pc[p] # "absent"

\* C18: connect_to returns a session only when the dial string parsed and the
\* TCP connect succeeded; an unparsable dial string gives InvalidPeerAddress
\* without a connect attempt, a refused or timed-out connect gives
\* ConnectionFail; in both error cases no session is created, and the connect
\* is attempted at most once
C18_ConnectToOutcome ==
  \A p \in Peers :
    Dialled(p) =>
      /\ connected[p].attempts <= 1
      /\ pc[p] = "unconnected" => connected[p] = [result |-> "", attempts |-> 0]
      /\ pc[p] # "unconnected" =>
           /\ connected[p].result = "Ok" <=> dial[p].parses /\ dial[p].connect = "ok"
           /\ ~dial[p].parses =>
                connected[p] = [result |-> "InvalidPeerAddress", attempts |-> 0]
           /\ dial[p].parses /\ dial[p].connect # "ok" =>
                connected[p] = [result |-> "ConnectionFail", attempts |-> 1]
           /\ connected[p].result = "Ok" <=> pc[p] # "no_session"
           /\ pc[p] = "no_session" =>
                /\ SentBy(p) = <<>>
                /\ accepted[p] = <<>>
                /\ ~is_authenticated[p]
                /\ send_message_sequence[p] = 0

C18_Witness ==
  \E p \in Peers :
    /\ Dialled(p)
    /\ ~dial[p].parses
    /\ pc[p] = "no_session"
    /\ connected[p] = [result |-> "InvalidPeerAddress", attempts |-> 0]

\* the record holds as many bytes as its header announces and they decode as
\* an AuthenticatedMessage
Decodes(record) ==
  record.body.wellformed /\ Low31(record.header) = record.body.length

StampedBy(c) ==
  LET mine(b) == b.copy = c /\ b.part = "header" /\ IsProtected(b.envelope)
      chunks == SelectSeq(clones.bytes, mine)
  IN [i \in 1..Len(chunks) |-> chunks[i].envelope]

\* the sequence number copy c started from
StartedAt(c) == IF c = "original" THEN 0 ELSE clones.cloned_at

\* what the owner of copy c has written last, if anything
LastPartOf(c) ==
  LET mine(b) == b.copy = c
      chunks == SelectSeq(clones.bytes, mine)
  IN IF chunks = <<>> THEN "none" ELSE chunks[Len(chunks)].part

\* two MAC-protected envelopes on the shared stream carry the same sequence number
DuplicateSequence ==
  \E i, j \in 1..Len(clones.bytes) :
    /\ i < j
    /\ clones.bytes[i].part = "body" /\ clones.bytes[j].part = "body"
    /\ clones.bytes[i].copy # clones.bytes[j].copy
    /\ IsProtected(clones.bytes[i].envelope) /\ IsProtected(clones.bytes[j].envelope)
    /\ clones.bytes[i].envelope.sequence = clones.bytes[j].envelope.sequence

\* one copy's length prefix is followed on the stream by bytes of the other
\* copy's record
InterleavedRecord ==
  \E i \in 1..(Len(clones.bytes) - 1) :
    /\ clones.bytes[i].part = "header"
    /\ clones.bytes[i + 1].copy # clones.bytes[i].copy

\* C22: each copy of a cloned session counts its MAC-protected envelopes on a
\* send_seq of its own, the clone's starting from the value copied when it was
\* made, and each copy writes a record's header and body as two stream writes;
\* so two owners' writes can interleave (the states of C22_Witness): two
\* MAC-protected envelopes with one sequence number on the shared stream, and
\* one record's length prefix followed by bytes of the other copy's record
C22_CopiesCountAndWriteApart ==
  /\ \A p \in Peers : pc[p] = "keyed" =>
       send_message_sequence[p] = Len(StampedBy("original"))
  /\ clones.made =>
       clones.send_message_sequence = clones.cloned_at + Len(StampedBy("clone"))
  /\ ~clones.made => StampedBy("clone") = <<>>
  /\ \A c \in Copies : \A i \in 1..Len(StampedBy(c)) :
       StampedBy(c)[i].sequence = StartedAt(c) + i - 1
  /\ \A c \in Copies :
       /\ clones.sending[c] # <<>> <=> LastPartOf(c) = "header"
       /\ clones.sending[c] = <<>> <=> LastPartOf(c) \in {"none", "body"}

C22_Witness ==
  /\ clones.made
  /\ clones.cloned_at >= 1
  /\ DuplicateSequence
  /\ InterleavedRecord
====
